---- MODULE Spec2Model ----
(***************************************************************************)
(* Model of the size-indexed AVL index of alloc_expr (src/src/avl_tree.rs) *)
(* and of the LargeAllocator interface built on it.                        *)
(*                                                                         *)
(* A node pointer is a node number 1..MaxNodes (the n-th region mapped by  *)
(* request_memory), NULL for None, INSIDE for an address inside a mapped   *)
(* region that is not the start of its node record, or WILD for an address *)
(* that is not mapped at all.                                              *)
(***************************************************************************)
EXTENDS Integers, Naturals, Sequences, FiniteSets, TLC

\* ---------------------------------------------------------------- bounds
MaxNodes == 4
MaxSteps == 7

\* ------------------------------------------------------------- constants
PAGE_SIZE == 4096
HeaderSize == 32
HeaderAlign == 8
RegionStride == 65536

NULL == 0
WILD == -1
INSIDE == -2
EXTERN == -3

Nodes == 1..MaxNodes
Sizes == {4 * k : k \in 1..(2 * MaxNodes + 1)}
ReqSizes == {64, 100}
Aligns == {8, 64}

Max(a, b) == IF a >= b THEN a ELSE b

RoundUp(x, a) == ((x + a - 1) \div a) * a

\* ------------------------------------------------------- Layout, Node::new
\* Layout::extend: the offset of the data and the unpadded total layout
ExtendOffset(align) == RoundUp(HeaderSize, align)

ExtendSize(size, align) == ExtendOffset(align) + size

ExtendAlign(align) == Max(HeaderAlign, align)

\* Layout::pad_to_align: the size rounded up to the layout's own alignment
PadToAlign(size, align) == RoundUp(size, align)

\* Layout::align_to raises the alignment only and leaves the size as it is
AlignToSize(size, align) == size

\* page_aligned_layout.size()
MappedSize(size, align) ==
    AlignToSize(PadToAlign(ExtendSize(size, align), ExtendAlign(align)), PAGE_SIZE)

\* header.size of a new node
NewCapacity(size, align) == MappedSize(size, align) - HeaderSize

\* the address request_memory returns for the n-th mapping
Base(n) == n * RegionStride

\* data_ptr = address.add(offset)
NewData(address, align) == address + ExtendOffset(align)

NoNode == [size |-> 0, height |-> 0, left |-> NULL, right |-> NULL, data |-> 0]

\* the record Node::new writes
NewNode(n, size, align) ==
    [size |-> NewCapacity(size, align), height |-> 1, left |-> NULL,
     right |-> NULL, data |-> NewData(Base(n), align)]

\* ------------------------------------------------------------ heap access
\* A heap is [mem, root, n, st]: the node records, AVLTree.root, the number
\* of mapped nodes and the status of the running call.
IsNode(h, p) == p \in 1..h.n

\* the length of the n-th mapping: mmap maps whole pages
RegionLen(h, n) == RoundUp(h.mem[n].size + HeaderSize, PAGE_SIZE)

\* what an address is as a node pointer
AddrToPtr(h, a) ==
    IF \E n \in 1..h.n : Base(n) = a
    THEN CHOOSE n \in 1..h.n : Base(n) = a
    ELSE IF \E n \in 1..h.n : Base(n) < a /\ a < Base(n) + RegionLen(h, n)
    THEN INSIDE
    ELSE WILD

\* a dereference of a pointer that is no node: unmapped memory ends the
\* process, mapped memory hands the call bytes that are no node record
Fault(h, p) == [h EXCEPT !.st = IF p = INSIDE THEN "corrupt" ELSE "fault"]

Panic(h) == [h EXCEPT !.st = "panic"]

Diverge(h) == [h EXCEPT !.st = "diverge"]

StackLimit == 3 * MaxNodes + 3

\* With(v, F) is F(v), with v evaluated once
With(v, F(_)) == CHOOSE r \in {F(x) : x \in {v}} : TRUE

\* Node::height
Height(h, p) == IF p = NULL THEN 0 ELSE h.mem[p].height

\* Node::update_height
update_height(h, p) ==
    [h EXCEPT !.mem[p].height =
        Max(Height(h, h.mem[p].left), Height(h, h.mem[p].right)) + 1]

\* Node::balance_factor
balance_factor(h, p) == Height(h, h.mem[p].left) - Height(h, h.mem[p].right)

\* Node::rotate_right, the pair of the heap and the new subtree root
rotate_right(h, ptr) ==
    With(h.mem[ptr].left, LAMBDA left_ptr :
    IF left_ptr = NULL THEN [h |-> Panic(h), ptr |-> ptr]
    ELSE
    With([h EXCEPT !.mem[ptr].left = NULL], LAMBDA h1 :
    With(h1.mem[left_ptr].right, LAMBDA left_right :
    With([h1 EXCEPT !.mem[left_ptr].right = NULL], LAMBDA h2 :
    With(update_height([h2 EXCEPT !.mem[ptr].left = left_right], ptr), LAMBDA h3 :
    With(update_height([h3 EXCEPT !.mem[left_ptr].right = ptr], left_ptr), LAMBDA h4 :
        [h |-> h4, ptr |-> left_ptr]))))))

\* Node::rotate_left
rotate_left(h, ptr) ==
    With(h.mem[ptr].right, LAMBDA right_ptr :
    IF right_ptr = NULL THEN [h |-> Panic(h), ptr |-> ptr]
    ELSE
    With([h EXCEPT !.mem[ptr].right = NULL], LAMBDA h1 :
    With(h1.mem[right_ptr].left, LAMBDA right_left :
    With([h1 EXCEPT !.mem[right_ptr].left = NULL], LAMBDA h2 :
    With(update_height([h2 EXCEPT !.mem[ptr].right = right_left], ptr), LAMBDA h3 :
    With(update_height([h3 EXCEPT !.mem[right_ptr].left = ptr], right_ptr), LAMBDA h4 :
        [h |-> h4, ptr |-> right_ptr]))))))

\* the inner rotation of Node::rebalance, stored in the left link of ptr
RotateLeftChild(h, ptr) ==
    With(rotate_left(h, h.mem[ptr].left), LAMBDA r :
        IF r.h.st # "ok" THEN r.h ELSE [r.h EXCEPT !.mem[ptr].left = r.ptr])

\* the inner rotation of Node::rebalance, stored in the right link of ptr
RotateRightChild(h, ptr) ==
    With(rotate_right(h, h.mem[ptr].right), LAMBDA r :
        IF r.h.st # "ok" THEN r.h ELSE [r.h EXCEPT !.mem[ptr].right = r.ptr])

\* a rebalance of single rotations only, without the inner rotation of the
\* left-right and right-left cases
rebalance_single(h, ptr) ==
    With(update_height(h, ptr), LAMBDA h1 :
    With(balance_factor(h1, ptr), LAMBDA balance :
    IF balance > 1 THEN rotate_right(h1, ptr)
    ELSE IF balance < -1 THEN rotate_left(h1, ptr)
    ELSE [h |-> h1, ptr |-> ptr]))

\* Node::rebalance, the pair of the heap and the subtree root it returns
rebalance(h, ptr) ==
    With(update_height(h, ptr), LAMBDA h1 :
    With(balance_factor(h1, ptr), LAMBDA balance :
    IF balance > 1
    THEN With(IF h1.mem[ptr].left # NULL /\ balance_factor(h1, h1.mem[ptr].left) < 0
              THEN RotateLeftChild(h1, ptr) ELSE h1, LAMBDA inner :
            IF inner.st # "ok" THEN [h |-> inner, ptr |-> ptr]
            ELSE rotate_right(inner, ptr))
    ELSE IF balance < -1
    THEN With(IF h1.mem[ptr].right # NULL /\ balance_factor(h1, h1.mem[ptr].right) > 0
              THEN RotateRightChild(h1, ptr) ELSE h1, LAMBDA inner :
            IF inner.st # "ok" THEN [h |-> inner, ptr |-> ptr]
            ELSE rotate_left(inner, ptr))
    ELSE [h |-> h1, ptr |-> ptr]))

\* SearchDirection: Left(node), Right(node) or Root
Left(p) == [tag |-> "Left", node |-> p]

Right(p) == [tag |-> "Right", node |-> p]

Root == [tag |-> "Root", node |-> NULL]

\* Node::get_min: the leftmost node under `node` and the node above it
RECURSIVE get_min(_, _, _, _)
get_min(h, node, parent, fuel) ==
    IF fuel = 0 THEN [h |-> Diverge(h), current |-> node, parent |-> parent]
    ELSE IF h.mem[node].left # NULL
    THEN get_min(h, h.mem[node].left, node, fuel - 1)
    ELSE [h |-> h, current |-> node, parent |-> parent]

\* a swap of the whole headers, capacity included, and of the data pointers
swap_whole_nodes(h, self, other) ==
    [h EXCEPT !.mem[self] = h.mem[other], !.mem[other] = h.mem[self]]

\* Node::swap_header_details: left, right and height change places
swap_header_details(h, self, other) ==
    IF self = other THEN h
    ELSE [h EXCEPT !.mem[self].left = h.mem[other].left,
                   !.mem[self].right = h.mem[other].right,
                   !.mem[self].height = h.mem[other].height,
                   !.mem[other].left = h.mem[self].left,
                   !.mem[other].right = h.mem[self].right,
                   !.mem[other].height = h.mem[self].height]

\* the match on `parent` that stores a link in the parent or in root
SetParentLink(h, parent, p) ==
    IF parent.tag = "Left" THEN [h EXCEPT !.mem[parent.node].left = p]
    ELSE IF parent.tag = "Right" THEN [h EXCEPT !.mem[parent.node].right = p]
    ELSE [h EXCEPT !.root = p]

\* `remove self loop`: the branch of swap_nodes for successor_parent == target_node
ClearSelfLoop(h, successor_node) ==
    IF h.mem[successor_node].right = successor_node
    THEN [h EXCEPT !.mem[successor_node].right = NULL]
    ELSE [h EXCEPT !.mem[successor_node].left = NULL]

\* `make successor parent point to target`: the other branch of swap_nodes
RelinkSuccessorParent(h, target_node, successor_node, successor_parent) ==
    With(IF h.mem[successor_parent].right = successor_node
         THEN [h EXCEPT !.mem[successor_parent].right = target_node]
         ELSE h, LAMBDA h3 :
        IF h3.mem[successor_parent].left = successor_node
        THEN [h3 EXCEPT !.mem[successor_parent].left = target_node]
        ELSE h3)

\* AVLTree::swap_nodes, the pair of the heap and the DeleteAction
swap_nodes(h, target_node, successor_node, successor_parent, parent) ==
    With(SetParentLink(swap_header_details(h, target_node, successor_node),
                       parent, successor_node), LAMBDA h2 :
        IF successor_parent = target_node
        THEN [h |-> ClearSelfLoop(h2, successor_node), action |-> "NoAction"]
        ELSE [h |-> RelinkSuccessorParent(h2, target_node, successor_node,
                                          successor_parent),
              action |-> "SearchDelete"])

\* AVLTree::delete_node
delete_node(h, root_node, parent) ==
    With(h.mem[root_node].left, LAMBDA l :
    With(h.mem[root_node].right, LAMBDA r :
    IF l = NULL /\ r = NULL
    THEN [h |-> SetParentLink(h, parent, NULL), action |-> "NoAction"]
    ELSE IF l # NULL /\ r # NULL
    THEN With(get_min(h, r, root_node, StackLimit), LAMBDA m :
            IF m.h.st # "ok" THEN [h |-> m.h, action |-> "NoAction"]
            ELSE swap_nodes(h, root_node, m.current, m.parent, parent))
    ELSE swap_nodes(h, root_node, IF l # NULL THEN l ELSE r, root_node, parent)))

\* the second descent of remove_node after SearchDelete, and the node the
\* frame goes on with: the parent, or the new root
RECURSIVE remove_node(_, _, _, _, _)
SearchDelete(h, root_node, right_child, size, parent, fuel) ==
    IF right_child = NULL
    THEN [h |-> Panic(h), result |-> root_node, node |-> root_node]
    ELSE With(remove_node(h, right_child, size, parent, fuel - 1), LAMBDA r :
            IF parent.tag # "Root"
            THEN [h |-> r.h, result |-> root_node, node |-> parent.node]
            ELSE IF r.h.root = NULL
            THEN [h |-> Panic(r.h), result |-> root_node, node |-> root_node]
            ELSE [h |-> r.h, result |-> root_node, node |-> r.h.root])

\* the match on size.cmp(&header.size) of remove_node: the heap, the result
\* and the node that root_node names when the match is left
RemoveMatch(h, root_node, size, parent, fuel) ==
    IF size < h.mem[root_node].size
    THEN IF h.mem[root_node].left # NULL
         THEN With(remove_node(h, h.mem[root_node].left, size, Left(root_node),
                               fuel - 1), LAMBDA r :
                 [h |-> r.h, result |-> r.result, node |-> root_node])
         ELSE [h |-> h, result |-> root_node, node |-> root_node]
    ELSE IF size > h.mem[root_node].size
    THEN IF h.mem[root_node].right # NULL
         THEN With(remove_node(h, h.mem[root_node].right, size, Right(root_node),
                               fuel - 1), LAMBDA r :
                 [h |-> r.h, result |-> r.result, node |-> root_node])
         ELSE [h |-> h, result |-> NULL, node |-> root_node]
    ELSE With(h.mem[root_node].right, LAMBDA right_child :
         With(delete_node(h, root_node, parent), LAMBDA d :
            IF d.h.st # "ok" \/ d.action = "NoAction"
            THEN [h |-> d.h, result |-> root_node, node |-> root_node]
            ELSE SearchDelete(d.h, root_node, right_child, size, parent, fuel)))

\* AVLTree::remove_node, the pair of the heap and the NodePtr it returns;
\* the value of Node::rebalance on the last line is dropped, as in the code
remove_node(h, root_node, size, parent, fuel) ==
    IF h.st # "ok" THEN [h |-> h, result |-> NULL]
    ELSE IF fuel = 0 THEN [h |-> Diverge(h), result |-> NULL]
    ELSE IF ~IsNode(h, root_node) THEN [h |-> Fault(h, root_node), result |-> NULL]
    ELSE With(RemoveMatch(h, root_node, size, parent, fuel), LAMBDA m :
            IF m.h.st # "ok" THEN [h |-> m.h, result |-> m.result]
            ELSE IF ~IsNode(m.h, m.node)
            THEN [h |-> Fault(m.h, m.node), result |-> m.result]
            ELSE [h |-> rebalance(m.h, m.node).h, result |-> m.result])

\* a removal that takes whatever node is at the root, fitting or not
remove_root(h, value) ==
    IF h.root # NULL /\ IsNode(h, h.root)
    THEN remove_node(h, h.root, h.mem[h.root].size, Root, StackLimit)
    ELSE [h |-> h, result |-> NULL]

\* AVLTree::remove
remove(h, value) ==
    IF h.root # NULL THEN remove_node(h, h.root, value, Root, StackLimit)
    ELSE [h |-> h, result |-> NULL]

\* an insertion that sends a node of equal capacity to the right
RECURSIVE reinsert_equal_right(_, _, _, _)
reinsert_equal_right(h, node, value, fuel) ==
    IF h.st # "ok" THEN [h |-> h, ptr |-> value]
    ELSE IF node = NULL THEN [h |-> h, ptr |-> value]
    ELSE IF fuel = 0 THEN [h |-> Diverge(h), ptr |-> node]
    ELSE IF ~IsNode(h, node) THEN [h |-> Fault(h, node), ptr |-> node]
    ELSE IF ~IsNode(h, value) THEN [h |-> Fault(h, value), ptr |-> node]
    ELSE IF h.mem[value].size < h.mem[node].size
    THEN With(reinsert_equal_right(h, h.mem[node].left, value, fuel - 1), LAMBDA r :
            IF r.h.st # "ok" THEN [h |-> r.h, ptr |-> node]
            ELSE With([r.h EXCEPT !.mem[node].left = r.ptr], LAMBDA h1 :
                    rebalance(h1, node)))
    ELSE With(reinsert_equal_right(h, h.mem[node].right, value, fuel - 1), LAMBDA r :
            IF r.h.st # "ok" THEN [h |-> r.h, ptr |-> node]
            ELSE With([r.h EXCEPT !.mem[node].right = r.ptr], LAMBDA h1 :
                    rebalance(h1, node)))

\* AVLTree::reinsert_node, the pair of the heap and the subtree root
RECURSIVE reinsert_node(_, _, _, _)
reinsert_node(h, node, value, fuel) ==
    IF h.st # "ok" THEN [h |-> h, ptr |-> value]
    ELSE IF node = NULL THEN [h |-> h, ptr |-> value]
    ELSE IF fuel = 0 THEN [h |-> Diverge(h), ptr |-> node]
    ELSE IF ~IsNode(h, node) THEN [h |-> Fault(h, node), ptr |-> node]
    ELSE IF ~IsNode(h, value) THEN [h |-> Fault(h, value), ptr |-> node]
    ELSE IF h.mem[value].size < h.mem[node].size
    THEN With(reinsert_node(h, h.mem[node].left, value, fuel - 1), LAMBDA r :
            IF r.h.st # "ok" THEN [h |-> r.h, ptr |-> node]
            ELSE With([r.h EXCEPT !.mem[node].left = r.ptr], LAMBDA h1 :
                    rebalance(h1, node)))
    ELSE IF h.mem[value].size > h.mem[node].size
    THEN With(reinsert_node(h, h.mem[node].right, value, fuel - 1), LAMBDA r :
            IF r.h.st # "ok" THEN [h |-> r.h, ptr |-> node]
            ELSE With([r.h EXCEPT !.mem[node].right = r.ptr], LAMBDA h1 :
                    rebalance(h1, node)))
    ELSE [h |-> h, ptr |-> node]

\* AVLTree::insert_node
insert_node(h, value) ==
    With(reinsert_node(h, h.root, value, StackLimit), LAMBDA r :
        IF r.h.st # "ok" THEN r.h ELSE [r.h EXCEPT !.root = r.ptr])

\* ------------------------------------------------------- observing a heap
Kids(h, S) == {c \in {h.mem[p].left : p \in S} \cup {h.mem[p].right : p \in S} :
                 IsNode(h, c)}

RECURSIVE Closure(_, _, _)
Closure(h, S, k) ==
    IF k = 0 THEN S
    ELSE With(S \cup Kids(h, S), LAMBDA T : Closure(h, T, k - 1))

\* the nodes reachable from a pointer through left and right
ReachFrom(h, p) == IF IsNode(h, p) THEN Closure(h, {p}, MaxNodes) ELSE {}

\* the nodes the index holds
Reach(h) == ReachFrom(h, h.root)

Ordered(h) ==
    \A p \in Reach(h) :
        /\ \A q \in ReachFrom(h, h.mem[p].left) : h.mem[q].size < h.mem[p].size
        /\ \A q \in ReachFrom(h, h.mem[p].right) : h.mem[q].size > h.mem[p].size

Balanced(h) ==
    \A p \in Reach(h) : balance_factor(h, p) \in {-1, 0, 1}

HeightsRight(h) ==
    \A p \in Reach(h) :
        h.mem[p].height =
            Max(Height(h, h.mem[p].left), Height(h, h.mem[p].right)) + 1

\* ------------------------------------------------------------------ state
VARIABLES mem, root, nNodes, status, held, last, steps

vars == <<mem, root, nNodes, status, held, last, steps>>

\* the heap a call starts from
Cur == [mem |-> mem, root |-> root, n |-> nNodes, st |-> "ok"]

NoOp == [op |-> "none", size |-> 0, ptr |-> NULL, node |-> NULL, res |-> NULL,
         fresh |-> FALSE, dup |-> FALSE, preReach |-> {}, preRoot |-> NULL,
         preOrd |-> TRUE, preBal |-> TRUE, preHts |-> TRUE,
         phase |-> 0, p0 |-> NULL, cap0 |-> 0]

Init ==
    /\ mem = [n \in Nodes |-> NoNode]
    /\ root = NULL
    /\ nNodes = 0
    /\ status = "ok"
    /\ held = {}
    /\ last = NoOp
    /\ steps = 0

\* what every operation records about the heap it started from
Pre(op, size, ptr) ==
    [NoOp EXCEPT !.op = op, !.size = size, !.ptr = ptr,
                 !.preReach = Reach(Cur), !.preRoot = root,
                 !.preOrd = Ordered(Cur), !.preBal = Balanced(Cur),
                 !.preHts = HeightsRight(Cur)]

\* stored heights are i32; a cycle of links lets them grow with every call,
\* so a call is followed only while they stay within HeightCap
HeightCap == MaxNodes + 1

Store(h) ==
    /\ steps < MaxSteps
    /\ steps' = steps + 1
    /\ \A n \in Nodes : h.mem[n].height <= HeightCap
    /\ mem' = h.mem
    /\ root' = h.root
    /\ nNodes' = h.n
    /\ status' = h.st

\* AVLTree::remove called on the index
Remove(s) ==
    /\ status = "ok"
    /\ \E r \in {remove(Cur, s)} :
           /\ Store(r.h)
           /\ held' = IF r.h.st = "ok" /\ r.result # NULL
                      THEN held \cup {r.result} ELSE held
           /\ last' = [Pre("remove", s, NULL) EXCEPT !.node = r.result]

\* AVLTree::insert_node called with a node the caller holds
InsertNode(n) ==
    /\ status = "ok"
    /\ n \in held
    /\ \E h \in {insert_node(Cur, n)} : Store(h)
    /\ held' = held \ {n}
    /\ last' = [Pre("insert", mem[n].size, NULL) EXCEPT !.node = n]

\* the caller's place in the sequence alloc on an index with no free node,
\* dealloc of that pointer, alloc again of at most the freed capacity
AfterAlloc(l, size) ==
    IF last.phase = 2 /\ size <= last.cap0
    THEN [l EXCEPT !.phase = 3, !.p0 = last.p0, !.cap0 = last.cap0]
    ELSE IF l.fresh /\ Reach(Cur) = {} /\ root = NULL
    THEN [l EXCEPT !.phase = 1, !.p0 = l.res, !.cap0 = mem'[l.node].size]
    ELSE l

AfterDealloc(l, p) ==
    IF last.phase = 1 /\ p = last.p0
    THEN [l EXCEPT !.phase = 2, !.p0 = last.p0, !.cap0 = last.cap0]
    ELSE l

\* AVLTree::alloc
Alloc(size, align) ==
    /\ status = "ok"
    /\ \E r \in {remove(Cur, size)}, n \in {nNodes + 1} :
           IF r.h.st # "ok"
           THEN /\ Store(r.h)
                /\ held' = held
                /\ last' = AfterAlloc(Pre("alloc", size, NULL), size)
           ELSE IF r.result = NULL
           THEN /\ nNodes < MaxNodes
                /\ Store([r.h EXCEPT !.mem[n] = NewNode(n, size, align), !.n = n])
                /\ held' = held \cup {n}
                /\ last' = AfterAlloc([Pre("alloc", size, NULL) EXCEPT
                               !.node = n, !.fresh = TRUE,
                               !.res = NewNode(n, size, align).data], size)
           ELSE /\ Store(r.h)
                /\ held' = held \cup {r.result}
                /\ last' = AfterAlloc([Pre("alloc", size, NULL) EXCEPT
                               !.node = r.result, !.dup = r.result \in held,
                               !.res = r.h.mem[r.result].data], size)

\* `*address.cast()`: the pointer-sized word stored at an address, read as a
\* NonNull<Node>.  At the start of a node record that word is header.size,
\* HeaderSize bytes further on it is Node.data; any other word of a mapping
\* is bytes the caller wrote.
ReadNodePtr(h, address) ==
    IF \E n \in 1..h.n : address = Base(n)
    THEN AddrToPtr(h, h.mem[AddrToPtr(h, address)].size)
    ELSE IF \E n \in 1..h.n : address = Base(n) + HeaderSize
    THEN AddrToPtr(h, h.mem[AddrToPtr(h, address - HeaderSize)].data)
    ELSE INSIDE

\* the pointers callers own
HeldPtrs == {mem[n].data : n \in held}

Owner(p) == CHOOSE n \in held : mem[n].data = p

\* AVLTree::dealloc
Dealloc(p) ==
    /\ status = "ok"
    /\ p \in HeldPtrs
    /\ \E node \in {ReadNodePtr(Cur, p - HeaderSize)} :
           /\ \E h \in {insert_node(Cur, node)} : Store(h)
           /\ held' = held \ {Owner(p)}
           /\ last' = AfterDealloc([Pre("dealloc", mem[Owner(p)].size, p)
                                       EXCEPT !.node = node], p)

\* AVLTree::realloc; got tells whether the global allocator that is asked
\* for the replacement region returned one
Realloc(p, align, new_size, got) ==
    /\ status = "ok"
    /\ p \in HeldPtrs
    /\ \E node \in {ReadNodePtr(Cur, p - HeaderSize)},
          l \in {Pre("realloc", new_size, p)} :
           IF ~IsNode(Cur, node)
           THEN /\ Store(Fault(Cur, node))
                /\ held' = held
                /\ last' = l
           ELSE IF mem[node].size >= new_size
           THEN /\ Store(Cur)
                /\ held' = held
                /\ last' = [l EXCEPT !.node = node, !.res = p]
           ELSE IF ~got
           THEN /\ Store(Cur)
                /\ held' = held
                /\ last' = [l EXCEPT !.node = node, !.res = NULL]
           ELSE /\ \E h \in {insert_node(Cur, ReadNodePtr(Cur, p - HeaderSize))} :
                       Store(h)
                /\ held' = held \ {Owner(p)}
                /\ last' = [l EXCEPT !.node = node, !.res = EXTERN]

Next ==
    \/ \E s \in ReqSizes, a \in Aligns : Alloc(s, a)
    \/ \E n \in Nodes : n \in held /\ Dealloc(mem[n].data)
    \/ \E n \in Nodes, s \in ReqSizes, a \in Aligns, got \in BOOLEAN :
          n \in held /\ Realloc(mem[n].data, a, s, got)

Spec == Init /\ [][Next]_vars

\* The index as its own operations see it: MaxNodes chunks of capacities
\* 8, 16, ... have been mapped by alloc on the empty index and are held by
\* the caller, who hands them to insert_node and takes them back with remove.
InitTree ==
    /\ mem = [n \in Nodes |-> NewNode(n, 8 * n, HeaderAlign)]
    /\ root = NULL
    /\ nNodes = MaxNodes
    /\ status = "ok"
    /\ held = Nodes
    /\ last = NoOp
    /\ steps = 0

NextTree ==
    \/ \E s \in Sizes : Remove(s)
    \/ \E n \in Nodes : InsertNode(n)
    \/ \E s \in Sizes : Alloc(s, HeaderAlign)

SpecTree == InitTree /\ [][NextTree]_vars

\* The index with room for one more mapping: all chunks but one have been
\* mapped and are held by the caller, and alloc maps the last one on a miss,
\* of whatever capacity the request asks for.
InitPool ==
    /\ mem = [n \in Nodes |-> IF n < MaxNodes THEN NewNode(n, 8 * n, HeaderAlign)
                                              ELSE NoNode]
    /\ root = NULL
    /\ nNodes = MaxNodes - 1
    /\ status = "ok"
    /\ held = 1..(MaxNodes - 1)
    /\ last = NoOp
    /\ steps = 0

NextPool ==
    \/ \E n \in Nodes : InsertNode(n)
    \/ \E s \in Sizes : Alloc(s, HeaderAlign)

SpecPool == InitPool /\ [][NextPool]_vars

\* ------------------------------------------------------------------ claims
Done(ops) == last.op \in ops /\ status = "ok"

\* the nodes of the index a request of last.size could have been given
Fits == {n \in last.preReach : mem[n].size >= last.size}

\* C1: on an ordered and balanced index remove(s) returns absent exactly
\* when no node has capacity >= s, and otherwise the node of the smallest
\* capacity >= s
C1_BestFit ==
    (Done({"remove"}) /\ last.preOrd /\ last.preBal) =>
        /\ (last.node = NULL) <=> (Fits = {})
        /\ last.node # NULL =>
              /\ last.node \in Fits
              /\ \A c \in Fits : mem[last.node].size <= mem[c].size

\* C2: a node returned by remove, or by alloc on a best-fit hit, is no
\* longer reachable from root when the operation completes
C2_EvictedOnHit ==
    (Done({"remove", "alloc"}) /\ last.node # NULL /\ ~last.fresh) =>
        last.node \notin Reach(Cur)

\* C3: alloc never returns a chunk a caller still owns, and no chunk is at
\* once owned by a caller and free in the index
C3_NoDoubleAllocation ==
    status = "ok" =>
        /\ last.op = "alloc" => ~last.dup
        /\ held \cap Reach(Cur) = {}

\* C4: after every completed insert or remove every reachable node has
\* |height(left) - height(right)| <= 1
C4_Balance == Done({"insert", "remove"}) => Balanced(Cur)

\* C5: after every completed insert or remove every reachable node stores
\* height = max(height(left), height(right)) + 1
C5_HeightConsistency == Done({"insert", "remove"}) => HeightsRight(Cur)

\* C6: after every completed insert or remove the capacities left of a
\* node are smaller and the capacities right of it are greater
C6_Ordering == Done({"insert", "remove"}) => Ordered(Cur)

\* C7: for every pointer alloc returns, the address HeaderSize below it is
\* the start of the record of the node that owns it, and that node's data
\* is the pointer
C7_RoundTrip ==
    (Done({"alloc"}) /\ last.node # NULL) =>
        /\ AddrToPtr(Cur, last.res - HeaderSize) = last.node
        /\ mem[last.node].data = last.res

\* C8: alloc(n) on an index with no free node, dealloc of the pointer, then
\* alloc(m) with m <= the freed capacity returns the first pointer again
\* and maps nothing
C8_ReuseOverRemap ==
    last.phase = 3 =>
        /\ status = "ok"
        /\ last.res = last.p0
        /\ ~last.fresh

\* C9: dealloc(p) inserts the node whose record starts HeaderSize below p;
\* with no free node of that capacity before, that node is reachable from
\* root afterwards
C9_DeallocRecoversNode ==
    (last.op = "dealloc"
        /\ \A n \in last.preReach : mem[n].size # last.size) =>
        /\ status = "ok"
        /\ last.node = AddrToPtr(Cur, last.ptr - HeaderSize)
        /\ last.node \in Reach(Cur)

\* C10: a node created on a best-fit miss has capacity = (header and aligned
\* data, rounded up to whole pages) - HeaderSize
C10_PageQuantized ==
    (Done({"alloc"}) /\ last.fresh) =>
        mem[last.node].size =
            RoundUp((last.res - Base(last.node)) + last.size, PAGE_SIZE) - HeaderSize

SelfLoop(h, n) == h.mem[n].left = n \/ h.mem[n].right = n

\* C12: after every completed operation no node reachable from root or held
\* by a caller has a left or right link to itself
C12_NoSelfLoops ==
    status = "ok" => \A n \in Reach(Cur) \cup held : ~SelfLoop(Cur, n)

\* the node whose data pointer is p
NodeOf(p) == CHOOSE n \in 1..nNodes : mem[n].data = p

\* realloc was called on a pointer whose node has the capacity c
ReallocOf(c) ==
    /\ last'.op = "realloc"
    /\ last'.ptr \in HeldPtrs
    /\ mem[NodeOf(last'.ptr)].size = c

\* C13: realloc of a pointer whose node is smaller than new_size returns;
\* it returns absent and leaves the index and the allocation as they were
\* when the replacement fails, and otherwise returns a region and the
\* original node is in the index and no longer the caller's
C13_ReallocGrowth ==
    [][\A c \in 0..(last'.size - 1) : ReallocOf(c) =>
          /\ status' = "ok"
          /\ last'.res = NULL =>
                /\ mem' = mem /\ root' = root /\ nNodes' = nNodes
                /\ held' = held
          /\ last'.res # NULL =>
                /\ NodeOf(last'.ptr) \in Reach(Cur)'
                /\ NodeOf(last'.ptr) \notin held']_vars

\* C14: realloc of a pointer whose node has capacity >= new_size returns
\* the pointer itself, maps nothing and leaves root and every node as it was
C14_ReallocNoGrowth ==
    [][\A n \in held :
          (ReallocOf(mem[n].size) /\ mem[n].size >= last'.size) =>
              /\ status' = "ok"
              /\ last'.res = last'.ptr
              /\ mem' = mem /\ root' = root /\ nNodes' = nNodes
              /\ held' = held]_vars

\* an ordered and balanced tree with the heights its shape gives
Valid(h) == Ordered(h) /\ Balanced(h) /\ HeightsRight(h)

\* C15: inserting a node into a valid tree that holds another node of the
\* same capacity leaves root and every reachable node as it was, and the
\* incoming node is not reachable from root afterwards
C15_DuplicateInsert ==
    [][\A n \in Nodes :
          (/\ last'.op = "insert" /\ last'.node = n /\ status' = "ok"
           /\ Valid(Cur)
           /\ \E m \in Reach(Cur) \ {n} : mem[m].size = mem[n].size) =>
              /\ root' = root
              /\ \A q \in Reach(Cur) : mem'[q] = mem[q]
              /\ n \notin Reach(Cur)']_vars

\* an insert into a valid tree of at least two nodes, one of them of the
\* capacity of the incoming node, has returned
C15_DuplicateDropped ==
    /\ Done({"insert"})
    /\ last.preOrd /\ last.preBal /\ last.preHts
    /\ Cardinality(last.preReach) >= 2
    /\ \E m \in last.preReach \ {last.node} : mem[m].size = mem[last.node].size

\* C16: no call changes the capacity or the data pointer of a mapped node
C16_IdentityFields ==
    [][\A n \in 1..nNodes :
          mem'[n].size = mem[n].size /\ mem'[n].data = mem[n].data]_vars

\* remove has taken the root of a valid tree, a node with two children, by
\* exact match: the successor swap has run
C16_SwappedWithSuccessor ==
    /\ Done({"remove"})
    /\ last.preOrd /\ last.preBal /\ last.preHts
    /\ last.node # NULL
    /\ last.node = last.preRoot
    /\ mem[last.node].size = last.size
    /\ Cardinality(last.preReach) >= 3

\* C17: after remove on a valid tree the nodes reachable from root are the
\* nodes reachable before without the returned node, and the same nodes when
\* absent is returned
C17_NoNodeLost ==
    (Done({"remove"}) /\ last.preOrd /\ last.preBal /\ last.preHts) =>
        Reach(Cur) = last.preReach \ {last.node}

\* the heap a call leaves
Post == [mem |-> mem', root |-> root', n |-> nNodes', st |-> status']

\* the in-order successor of a node with a right child
Successor(h, t) == get_min(h, h.mem[t].right, t, StackLimit).current

\* remove(s) has matched node t exactly, in a valid tree
ExactMatch(t) ==
    /\ last'.op = "remove" /\ last'.node = t /\ last'.size = mem[t].size
    /\ Valid(Cur)
    /\ t \in Reach(Cur)

\* the link that named t names s afterwards
Replaced(t, s) ==
    /\ root = t => root' = s
    /\ \A p \in Reach(Cur) :
          /\ mem[p].left = t => mem'[p].left = s
          /\ mem[p].right = t => mem'[p].right = s

\* C18: when remove matches a node T with two children, the link that named
\* T names T's in-order successor S afterwards, S's left subtree is T's
\* former left subtree, T keeps its capacity and data pointer, and the tree
\* is balanced and ordered
C18_TwoChildrenDeletion ==
    [][\A t \in Nodes :
          (ExactMatch(t) /\ mem[t].left # NULL /\ mem[t].right # NULL) =>
              /\ status' = "ok"
              /\ Replaced(t, Successor(Cur, t))
              /\ mem'[Successor(Cur, t)].left = mem[t].left
              /\ ReachFrom(Post, mem[t].left) = ReachFrom(Cur, mem[t].left)
              /\ mem'[t].size = mem[t].size /\ mem'[t].data = mem[t].data
              /\ Balanced(Cur)' /\ Ordered(Cur)']_vars

\* the SearchDirection remove_node carries when it reaches t
Direction(t) ==
    IF root = t THEN Root
    ELSE IF \E p \in Reach(Cur) : mem[p].left = t
    THEN Left(CHOOSE p \in Reach(Cur) : mem[p].left = t)
    ELSE Right(CHOOSE p \in Reach(Cur) : mem[p].right = t)

\* what the link of that direction names after the call
LinkAfter(d) ==
    IF d.tag = "Root" THEN root'
    ELSE IF d.tag = "Left" THEN mem'[d.node].left
    ELSE mem'[d.node].right

\* the node that takes t's place is t's own child: its only child, or its
\* right child when that has no left child
AdjacentSuccessor(t) ==
    \/ (mem[t].left = NULL) # (mem[t].right = NULL)
    \/ /\ mem[t].left # NULL /\ mem[t].right # NULL
       /\ mem[mem[t].right].left = NULL

\* C19: when remove matches a node T whose place is taken by T's own child,
\* delete_node returns NoAction, and the subtree at T's position afterwards
\* holds exactly T's former descendants, none of them linked to itself
C19_AdjacentSuccessor ==
    [][\A t \in Nodes :
          (ExactMatch(t) /\ AdjacentSuccessor(t)) =>
              /\ status' = "ok"
              /\ delete_node(Cur, t, Direction(t)).action = "NoAction"
              /\ ReachFrom(Post, LinkAfter(Direction(t))) = ReachFrom(Cur, t) \ {t}
              /\ \A q \in ReachFrom(Post, LinkAfter(Direction(t))) :
                    ~SelfLoop(Post, q)]_vars

\* C20: on every index state reached through alloc, dealloc and realloc the
\* remove that alloc runs returns
C20_RemoveCompletes ==
    last.op = "alloc" => status = "ok"

\* The textbook AVL tree the index is compared with: <<>> is the empty tree,
\* <<k, l, r>> a node of key k; heights are those of the shape.
RECURSIVE RefHeight(_)
RefHeight(t) == IF t = <<>> THEN 0 ELSE 1 + Max(RefHeight(t[2]), RefHeight(t[3]))

RefFactor(t) == IF t = <<>> THEN 0 ELSE RefHeight(t[2]) - RefHeight(t[3])

RefRotateRight(t) == <<t[2][1], t[2][2], <<t[1], t[2][3], t[3]>>>>

RefRotateLeft(t) == <<t[3][1], <<t[1], t[2], t[3][2]>>, t[3][3]>>

RefBalance(t) ==
    IF RefFactor(t) > 1
    THEN IF RefFactor(t[2]) < 0
         THEN RefRotateRight(<<t[1], RefRotateLeft(t[2]), t[3]>>)
         ELSE RefRotateRight(t)
    ELSE IF RefFactor(t) < -1
    THEN IF RefFactor(t[3]) > 0
         THEN RefRotateLeft(<<t[1], t[2], RefRotateRight(t[3])>>)
         ELSE RefRotateLeft(t)
    ELSE t

RECURSIVE RefInsert(_, _)
RefInsert(t, k) ==
    IF t = <<>> THEN <<k, <<>>, <<>>>>
    ELSE IF k < t[1] THEN RefBalance(<<t[1], RefInsert(t[2], k), t[3]>>)
    ELSE IF k > t[1] THEN RefBalance(<<t[1], t[2], RefInsert(t[3], k)>>)
    ELSE t

\* the shape under a pointer, as a tree of capacities
RECURSIVE Shape(_, _, _)
Shape(h, p, fuel) ==
    IF ~IsNode(h, p) \/ fuel = 0 THEN <<>>
    ELSE <<h.mem[p].size, Shape(h, h.mem[p].left, fuel - 1),
           Shape(h, h.mem[p].right, fuel - 1)>>

\* a node as Node::new leaves it
IsFresh(n) == mem[n].height = 1 /\ mem[n].left = NULL /\ mem[n].right = NULL

\* C21: inserting a fresh node of a new capacity into a valid tree, the
\* empty one included, gives the shape and the heights of textbook AVL
\* insertion, and the nodes of the tree are the former ones and the new one
C21_InsertMatchesReference ==
    [][\A n \in Nodes :
          (/\ last'.op = "insert" /\ last'.node = n
           /\ Valid(Cur) /\ IsFresh(n)
           /\ \A m \in Reach(Cur) \cup {root} : m # n /\ IsNode(Cur, m) =>
                  mem[m].size # mem[n].size) =>
              /\ status' = "ok"
              /\ Shape(Post, root', MaxNodes + 1)
                    = RefInsert(Shape(Cur, root, MaxNodes + 1), mem[n].size)
              /\ HeightsRight(Post)
              /\ Reach(Post) = Reach(Cur) \cup {n}]_vars

\* the third, the fourth, the second and the first capacity have been
\* inserted in this order into the empty index, as in [10, 20, 5, 1]
C21_Example ==
    /\ steps = 4 /\ Done({"insert"}) /\ last.node = 1
    /\ root = 3 /\ mem[3].height = 3
    /\ mem[3].left = 2 /\ mem[3].right = 4
    /\ mem[2].height = 2 /\ mem[2].left = 1 /\ mem[2].right = NULL
    /\ mem[1].height = 1 /\ mem[4].height = 1

\* the number of links that name n: root and the left and right links of
\* the reachable nodes
LinkCount(h, n) ==
    (IF h.root = n THEN 1 ELSE 0)
    + Cardinality({p \in Reach(h) : h.mem[p].left = n})
    + Cardinality({p \in Reach(h) : h.mem[p].right = n})

\* the nodes below n
Descendants(h, n) == ReachFrom(h, h.mem[n].left) \cup ReachFrom(h, h.mem[n].right)

\* C22: after every completed operation every node reachable from root is
\* named by exactly one link and is not below itself
C22_IndexIsTree ==
    status = "ok" =>
        \A n \in Reach(Cur) : LinkCount(Cur, n) = 1 /\ n \notin Descendants(Cur, n)

\* C23: a node returned by remove, or handed out by alloc from the index,
\* has no left and no right link when the call completes
C23_NoStaleLinks ==
    (Done({"remove", "alloc"}) /\ last.node # NULL /\ ~last.fresh) =>
        mem[last.node].left = NULL /\ mem[last.node].right = NULL

\* size_of::<Node>(): the header and the stored data pointer
NodeSize == HeaderSize + 8

\* the first address after the record Node::new writes for the n-th mapping
RecordEnd(n) == Base(n) + NodeSize

\* C24: the record written by Node::new ends at or below the data pointer
\* alloc returns for the new node, for every size and alignment
C24_NoOverlap ==
    (Done({"alloc"}) /\ last.fresh) => RecordEnd(last.node) <= last.res

====
